---------------------------- MODULE Spec2Model ----------------------------
(***************************************************************************)
(* Model of the uhppote-mqtt bridge (src/src/bin/uhppote-mqtt.rs): the     *)
(* startup sequence of main (read config, resolve broker credentials,      *)
(* build the MQTT options, create the client, subscribe, publish the       *)
(* discovery payload), its receive loop, and handle_payload.               *)
(*                                                                         *)
(* Rust's Option<T> is a sequence of length at most one: None is << >>,    *)
(* Some(x) is <<x>>.  Inbound payloads are byte sequences (0..255).        *)
(* The rumqttc client is the pair (requests, network): AsyncClient::new    *)
(* creates a bounded request channel and an event loop without opening a   *)
(* connection; EventLoop::poll connects when there is no connection and    *)
(* is the only consumer of the request channel.                            *)
(***************************************************************************)
EXTENDS Naturals, Sequences, FiniteSets, TLC

VARIABLES
    pc,          \* position of main: a startup step, "poll", or a final position
    config,      \* Option<Config>: the config file once read
    mqttoptions, \* Option<MqttOptions>: the options handed to AsyncClient::new
    client,      \* TRUE once AsyncClient::new has returned (client, eventloop)
    requests,    \* the client's request channel (FIFO, capacity RequestCap)
    network,     \* TRUE while the event loop holds a connection to the broker
    event,       \* the last event polled and what its match arm did
    failure,     \* why main ended: "" while running, else the error or panic
    subscribed,  \* history: every subscribe request accepted by the client
    published,   \* history: every publish request accepted by the client
    opened,      \* history: a connection to the broker has been opened
    polled,      \* history: eventloop.poll() has been called
    device_ok,   \* history: number of device calls that succeeded
    state_pubs,  \* history: number of state publishes the client accepted
    budget,      \* inbound publish events the broker may still deliver
    supervisor,  \* history: HASS_TOKEN as read, and the supervisor's answer
    device_mode, \* history: mode of the last device call that succeeded
    state_label  \* history: the last state label the client accepted

vars == <<pc, config, mqttoptions, client, requests, network, event, failure,
          subscribed, published, opened, polled, device_ok, state_pubs,
          budget, supervisor, device_mode, state_label>>

---------------------------------------------------------------------------
(* Bounds of the model.                                                    *)

\* Inbound publish events delivered in one run of Spec.
MaxEvents == 3

\* Inbound "LOCK" messages delivered in one run of SpecBurst.
BurstEvents == 11

---------------------------------------------------------------------------
(* Program constants.                                                      *)

\* AsyncClient::new(mqttoptions, 10): capacity of the request channel.
RequestCap == 10

\* mqttoptions.set_keep_alive(Duration::from_secs(5))
KeepAliveSecs == 5

\* DoorControl { delay: Duration::new(5, 0), .. }
DelaySecs == 5

\* u16::MAX, the largest port j.port.parse() accepts.
U16Max == 65535

None == << >>
Some(x) == <<x>>
IsSome(o) == Len(o) = 1
Unwrap(o) == o[1]

---------------------------------------------------------------------------
(* Topics and the discovery payload (main, lines 91-98 and 159-162).       *)

ConfigTopic(base) == base \o "/config"
StateTopic(base) == base \o "/state"
CommandTopic(base) == base \o "/command"

DiscoveryPayload(command_topic, state_topic, name) ==
    "{\"command_topic\": \"" \o command_topic \o "\", \"state_topic\": \""
        \o state_topic \o "\", \"name\": \"" \o name \o "\" }"

SubscribeRequest(topic, qos) ==
    [op |-> "subscribe", topic |-> topic, qos |-> qos, retain |-> FALSE,
     payload |-> ""]

PublishRequest(topic, qos, retain, payload) ==
    [op |-> "publish", topic |-> topic, qos |-> qos, retain |-> retain,
     payload |-> payload]

\* client.subscribe(&command_topic, QoS::AtMostOnce)
CommandSubscribe(cfg) ==
    SubscribeRequest(CommandTopic(cfg.base_topic), "AtMostOnce")

\* Mutant: the discovery payload published without the retain flag.
DiscoveryPublishNotRetained(cfg) ==
    PublishRequest(ConfigTopic(cfg.base_topic), "AtLeastOnce", FALSE,
                   DiscoveryPayload(CommandTopic(cfg.base_topic),
                                    StateTopic(cfg.base_topic), cfg.name))

\* client.publish(&config_topic, QoS::AtLeastOnce, true, payload)
DiscoveryPublish(cfg) ==
    PublishRequest(ConfigTopic(cfg.base_topic), "AtLeastOnce", TRUE,
                   DiscoveryPayload(CommandTopic(cfg.base_topic),
                                    StateTopic(cfg.base_topic), cfg.name))

\* Mutant: the state published to the command topic.
StatePublishOnCommand(cfg, state) ==
    PublishRequest(CommandTopic(cfg.base_topic), "AtLeastOnce", FALSE, state)

\* Mutant: the state published to the config topic.
StatePublishOnConfig(cfg, state) ==
    PublishRequest(ConfigTopic(cfg.base_topic), "AtLeastOnce", FALSE, state)

\* client.publish(&state_topic, QoS::AtLeastOnce, false, state)
StatePublish(cfg, state) ==
    PublishRequest(StateTopic(cfg.base_topic), "AtLeastOnce", FALSE, state)

\* A request handed to the bounded channel: an error when the call fails,
\* accepted while there is room, and otherwise the sender waits for room.
SendResult(queue, ok) ==
    IF ~ok THEN "error"
    ELSE IF Len(queue) < RequestCap THEN "sent"
    ELSE "blocked"

---------------------------------------------------------------------------
(* Inputs.                                                                 *)

Deployments ==
    { [base_topic |-> "uhppote", name |-> "Front door", door |-> 1],
      [base_topic |-> "home/gate", name |-> "Gate", door |-> 3] }

StaticHost == "broker.local"
StaticUsername == "bridge"
StaticPassword == "secret"

\* The config files main may read: a deployment with each of the four
\* optional broker fields present or absent.
ConfigFiles ==
    { [base_topic |-> d.base_topic, name |-> d.name, door |-> d.door,
       mqtt_id |-> "uhppote-mqtt",
       mqtt_host |-> h, mqtt_port |-> p,
       mqtt_username |-> u, mqtt_password |-> w] :
         d \in Deployments,
         h \in {None, Some(StaticHost)},
         p \in {None, Some(1883)},
         u \in {None, Some(StaticUsername)},
         w \in {None, Some(StaticPassword)} }

\* The supervisor's answers to GET http://supervisor/services/mqtt: the
\* request fails, or it returns a status and, for a body that deserializes
\* as MqttConfig, the record j.  A port string is a sequence of characters.
PortStrings ==
    { <<"8", "8", "8", "3">>, <<"6", "5", "5", "3", "5">>,
      <<"6", "5", "5", "3", "6">>, <<"8", "x">>, << >> }

SupervisorResponses ==
    { [sent |-> FALSE, status |-> 0, body |-> None] }
    \cup { [sent |-> TRUE, status |-> 401, body |-> None] }
    \cup { [sent |-> TRUE, status |-> 200, body |-> None] }
    \cup { [sent |-> TRUE, status |-> 200,
            body |-> Some([host |-> "core-mosquitto", port |-> ps,
                           username |-> "addons", password |-> "token"])] :
              ps \in PortStrings }

\* Inbound payloads, as bytes.
BytesLOCK == <<76, 79, 67, 75>>                \* "LOCK"
BytesUNLOCK == <<85, 78, 76, 79, 67, 75>>      \* "UNLOCK"
BytesLower == <<108, 111, 99, 107>>            \* "lock"
BytesPadded == <<76, 79, 67, 75, 32>>          \* "LOCK "
BytesEmpty == << >>                            \* ""
BytesAccent == <<195, 169>>                    \* "e" with acute accent
BytesTruncated == <<76, 79, 67, 75, 195>>      \* "LOCK" and half a character
BytesInvalid == <<255>>                        \* never valid in UTF-8

Payloads ==
    { BytesLOCK, BytesUNLOCK, BytesLower, BytesPadded, BytesEmpty,
      BytesAccent, BytesTruncated, BytesInvalid }

\* Topics an inbound publish may carry, as suffixes of the base topic.
InboundTopics == { "/command", "/state" }

---------------------------------------------------------------------------
(* std::str::from_utf8: the well-formed byte sequences of UTF-8.           *)

IsCont(b) == b >= 128 /\ b <= 191

\* Number of bytes of the well-formed character that starts s, 0 if none.
Utf8CharLen(s) ==
    LET b == s[1]
        n == Len(s)
    IN  IF b <= 127 THEN 1
        ELSE IF b >= 194 /\ b <= 223
            THEN IF n >= 2 /\ IsCont(s[2]) THEN 2 ELSE 0
        ELSE IF b >= 224 /\ b <= 239
            THEN IF /\ n >= 3
                    /\ IsCont(s[2])
                    /\ IsCont(s[3])
                    /\ (b = 224 => s[2] >= 160)
                    /\ (b = 237 => s[2] <= 159)
                 THEN 3 ELSE 0
        ELSE IF b >= 240 /\ b <= 244
            THEN IF /\ n >= 4
                    /\ IsCont(s[2])
                    /\ IsCont(s[3])
                    /\ IsCont(s[4])
                    /\ (b = 240 => s[2] >= 144)
                    /\ (b = 244 => s[2] <= 143)
                 THEN 4 ELSE 0
        ELSE 0

RECURSIVE ValidUtf8(_)
ValidUtf8(s) ==
    IF s = << >> THEN TRUE
    ELSE LET k == Utf8CharLen(s)
         IN  IF k = 0 THEN FALSE
             ELSE ValidUtf8(SubSeq(s, k + 1, Len(s)))

---------------------------------------------------------------------------
(* handle_payload (lines 194-223).  deviceOk is the answer of the device   *)
(* to set_door_control_state, should it be called.  The result is the      *)
(* device calls made, in order, and the Result<Option<&str>> returned.     *)

DoorControl(door, mode, ok) ==
    [door |-> door, delay |-> DelaySecs, mode |-> mode, ok |-> ok]

Ok(label) == [tag |-> "ok", label |-> label]
Err(cause) == [tag |-> "err", label |-> cause]

\* Mutant: both commands set the mode Controlled.
handle_payload_one_mode(door, payload, deviceOk) ==
    IF ~ValidUtf8(payload)
        THEN [calls |-> << >>, result |-> Err("utf8")]
    ELSE IF payload = BytesLOCK
        THEN [calls |-> <<DoorControl(door, "Controlled", deviceOk)>>,
              result |-> IF deviceOk THEN Ok(Some("LOCKED")) ELSE Err("device")]
    ELSE IF payload = BytesUNLOCK
        THEN [calls |-> <<DoorControl(door, "Controlled", deviceOk)>>,
              result |-> IF deviceOk THEN Ok(Some("UNLOCKED")) ELSE Err("device")]
    ELSE [calls |-> << >>, result |-> Ok(None)]

\* Mutant: the command is matched without regard to ASCII case.
UpperAscii(s) ==
    [i \in DOMAIN s |-> IF s[i] >= 97 /\ s[i] <= 122 THEN s[i] - 32 ELSE s[i]]

handle_payload_any_case(door, payload, deviceOk) ==
    IF ~ValidUtf8(payload)
        THEN [calls |-> << >>, result |-> Err("utf8")]
    ELSE IF UpperAscii(payload) = BytesLOCK
        THEN [calls |-> <<DoorControl(door, "Controlled", deviceOk)>>,
              result |-> IF deviceOk THEN Ok(Some("LOCKED")) ELSE Err("device")]
    ELSE IF UpperAscii(payload) = BytesUNLOCK
        THEN [calls |-> <<DoorControl(door, "NormallyOpen", deviceOk)>>,
              result |-> IF deviceOk THEN Ok(Some("UNLOCKED")) ELSE Err("device")]
    ELSE [calls |-> << >>, result |-> Ok(None)]

\* Mutant: the result of the device call is dropped.
handle_payload_ignore_failure(door, payload, deviceOk) ==
    IF ~ValidUtf8(payload)
        THEN [calls |-> << >>, result |-> Err("utf8")]
    ELSE IF payload = BytesLOCK
        THEN [calls |-> <<DoorControl(door, "Controlled", deviceOk)>>,
              result |-> Ok(Some("LOCKED"))]
    ELSE IF payload = BytesUNLOCK
        THEN [calls |-> <<DoorControl(door, "NormallyOpen", deviceOk)>>,
              result |-> Ok(Some("UNLOCKED"))]
    ELSE [calls |-> << >>, result |-> Ok(None)]

\* Mutant: a device call that fails is made a second time.
handle_payload_retry(door, payload, deviceOk) ==
    LET Calls(mode) == IF deviceOk THEN <<DoorControl(door, mode, TRUE)>>
                       ELSE <<DoorControl(door, mode, FALSE),
                              DoorControl(door, mode, FALSE)>>
    IN  IF ~ValidUtf8(payload)
            THEN [calls |-> << >>, result |-> Err("utf8")]
        ELSE IF payload = BytesLOCK
            THEN [calls |-> Calls("Controlled"),
                  result |-> IF deviceOk THEN Ok(Some("LOCKED")) ELSE Err("device")]
        ELSE IF payload = BytesUNLOCK
            THEN [calls |-> Calls("NormallyOpen"),
                  result |-> IF deviceOk THEN Ok(Some("UNLOCKED")) ELSE Err("device")]
        ELSE [calls |-> << >>, result |-> Ok(None)]

\* Mutant: the two labels are exchanged.
handle_payload_swapped_labels(door, payload, deviceOk) ==
    IF ~ValidUtf8(payload)
        THEN [calls |-> << >>, result |-> Err("utf8")]
    ELSE IF payload = BytesLOCK
        THEN [calls |-> <<DoorControl(door, "Controlled", deviceOk)>>,
              result |-> IF deviceOk THEN Ok(Some("UNLOCKED")) ELSE Err("device")]
    ELSE IF payload = BytesUNLOCK
        THEN [calls |-> <<DoorControl(door, "NormallyOpen", deviceOk)>>,
              result |-> IF deviceOk THEN Ok(Some("LOCKED")) ELSE Err("device")]
    ELSE [calls |-> << >>, result |-> Ok(None)]

handle_payload(door, payload, deviceOk) ==
    IF ~ValidUtf8(payload)
        THEN [calls |-> << >>, result |-> Err("utf8")]
    ELSE IF payload = BytesLOCK
        THEN [calls |-> <<DoorControl(door, "Controlled", deviceOk)>>,
              result |-> IF deviceOk THEN Ok(Some("LOCKED")) ELSE Err("device")]
    ELSE IF payload = BytesUNLOCK
        THEN [calls |-> <<DoorControl(door, "NormallyOpen", deviceOk)>>,
              result |-> IF deviceOk THEN Ok(Some("UNLOCKED")) ELSE Err("device")]
    ELSE [calls |-> << >>, result |-> Ok(None)]

---------------------------------------------------------------------------
(* j.port.parse::<u16>() (line 128): an optional "+", then one or more     *)
(* decimal digits, and a value of at most u16::MAX.                        *)

Digits == {"0", "1", "2", "3", "4", "5", "6", "7", "8", "9"}

DigitValue(c) ==
    CASE c = "0" -> 0 [] c = "1" -> 1 [] c = "2" -> 2 [] c = "3" -> 3
      [] c = "4" -> 4 [] c = "5" -> 5 [] c = "6" -> 6 [] c = "7" -> 7
      [] c = "8" -> 8 [] c = "9" -> 9

RECURSIVE ParseDigits(_, _)
ParseDigits(s, acc) ==
    IF s = << >> THEN Some(acc)
    ELSE IF s[1] \notin Digits THEN None
    ELSE LET next == acc * 10 + DigitValue(s[1])
         IN  IF next > U16Max THEN None ELSE ParseDigits(Tail(s), next)

ParseU16(s) ==
    IF s = << >> THEN None
    ELSE LET digits == IF s[1] = "+" THEN Tail(s) ELSE s
         IN  IF digits = << >> THEN None ELSE ParseDigits(digits, 0)

---------------------------------------------------------------------------
(* Credential resolution (main, lines 111-137).  hass_token and            *)
(* supervisor_token say whether HASS_TOKEN and SUPERVISOR_TOKEN are set,   *)
(* response is the supervisor's answer.  The result is the next position   *)
(* of main, the failure if any, and the config as it is left.              *)

Resolved(cfg) == [pc |-> "options", failure |-> "", config |-> cfg]
Failed(how, why, cfg) == [pc |-> how, failure |-> why, config |-> cfg]

\* Mutant: the supervisor's answer only fills the fields the config file
\* leaves unset.
resolve_keep_static(cfg, hass_token, supervisor_token, response) ==
    IF ~hass_token THEN Resolved(cfg)
    ELSE IF ~supervisor_token
        THEN Failed("panic", "SUPERVISOR_TOKEN not set", cfg)
    ELSE IF ~response.sent
        THEN Failed("exit", "supervisor request failed", cfg)
    ELSE IF response.status # 200
        THEN Failed("exit", "Failed to get MQTT config from HASS", cfg)
    ELSE IF ~IsSome(response.body)
        THEN Failed("exit", "supervisor response is no MqttConfig", cfg)
    ELSE LET j == Unwrap(response.body)
             Or(field, value) == IF IsSome(field) THEN field ELSE value
             withHost == [cfg EXCEPT !.mqtt_host = Or(@, Some(j.host))]
             port == ParseU16(j.port)
         IN  IF ~IsSome(port)
                 THEN Failed("exit", "port does not parse", withHost)
             ELSE Resolved([withHost EXCEPT
                              !.mqtt_port = Or(@, port),
                              !.mqtt_username = Or(@, Some(j.username)),
                              !.mqtt_password = Or(@, Some(j.password))])

resolve(cfg, hass_token, supervisor_token, response) ==
    IF ~hass_token THEN Resolved(cfg)
    ELSE IF ~supervisor_token
        THEN Failed("panic", "SUPERVISOR_TOKEN not set", cfg)
    ELSE IF ~response.sent
        THEN Failed("exit", "supervisor request failed", cfg)
    ELSE IF response.status # 200
        THEN Failed("exit", "Failed to get MQTT config from HASS", cfg)
    ELSE IF ~IsSome(response.body)
        THEN Failed("exit", "supervisor response is no MqttConfig", cfg)
    ELSE LET j == Unwrap(response.body)
             withHost == [cfg EXCEPT !.mqtt_host = Some(j.host)]
             port == ParseU16(j.port)
         IN  IF ~IsSome(port)
                 THEN Failed("exit", "port does not parse", withHost)
             ELSE Resolved([withHost EXCEPT
                              !.mqtt_port = port,
                              !.mqtt_username = Some(j.username),
                              !.mqtt_password = Some(j.password)])

\* Mutant: credentials are set only when both are configured.
mqtt_options_anonymous(cfg) ==
    IF ~IsSome(cfg.mqtt_host) THEN Failed("panic", "No MQTT host found", None)
    ELSE IF ~IsSome(cfg.mqtt_port) THEN Failed("panic", "No MQTT port found", None)
    ELSE LET named == IsSome(cfg.mqtt_username) /\ IsSome(cfg.mqtt_password)
         IN  [pc |-> "new_client", failure |-> "",
              config |-> Some([client_id |-> cfg.mqtt_id,
                               host |-> Unwrap(cfg.mqtt_host),
                               port |-> Unwrap(cfg.mqtt_port),
                               keep_alive |-> KeepAliveSecs,
                               username |-> IF named THEN Unwrap(cfg.mqtt_username)
                                            ELSE "",
                               password |-> IF named THEN Unwrap(cfg.mqtt_password)
                                            ELSE ""])]

\* MqttOptions::new with the four expect() calls and set_keep_alive,
\* set_credentials (lines 139-148): the options, or the panic message.
mqtt_options(cfg) ==
    IF ~IsSome(cfg.mqtt_host) THEN Failed("panic", "No MQTT host found", None)
    ELSE IF ~IsSome(cfg.mqtt_port) THEN Failed("panic", "No MQTT port found", None)
    ELSE IF ~IsSome(cfg.mqtt_username)
        THEN Failed("panic", "No MQTT username found", None)
    ELSE IF ~IsSome(cfg.mqtt_password)
        THEN Failed("panic", "No MQTT password found", None)
    ELSE [pc |-> "new_client", failure |-> "",
          config |-> Some([client_id |-> cfg.mqtt_id,
                           host |-> Unwrap(cfg.mqtt_host),
                           port |-> Unwrap(cfg.mqtt_port),
                           keep_alive |-> KeepAliveSecs,
                           username |-> Unwrap(cfg.mqtt_username),
                           password |-> Unwrap(cfg.mqtt_password)])]

---------------------------------------------------------------------------
(* Events.                                                                 *)

NoEvent ==
    [kind |-> "none", topic |-> "", payload |-> << >>, calls |-> << >>,
     outcome |-> "none", send |-> "none", report |-> "none"]

\* Err(err) => println!
TransportError == [NoEvent EXCEPT !.kind = "error", !.report = "stdout"]
\* An incoming packet other than a publish: ConnAck, SubAck, PubAck, PingResp.
IncomingOther == [NoEvent EXCEPT !.kind = "incoming"]
\* A notification of a packet the event loop wrote.
Outgoing == [NoEvent EXCEPT !.kind = "outgoing"]

\* What the translator's result is called in the event record.
Outcome(result) ==
    IF result.tag = "err" THEN "error:" \o result.label
    ELSE IF IsSome(result.label) THEN Unwrap(result.label)
    ELSE "ignored"

\* What the arm of main's match logs (lines 176 and 184): info! before the
\* state publish, error! for an Err, nothing for Ok(None).
Report(result) ==
    IF result.tag = "err" THEN "error"
    ELSE IF IsSome(result.label) THEN "info"
    ELSE "none"

Start(events) ==
    /\ pc = "read_config"
    /\ config = None
    /\ mqttoptions = None
    /\ client = FALSE
    /\ requests = << >>
    /\ network = FALSE
    /\ event = NoEvent
    /\ failure = ""
    /\ subscribed = {}
    /\ published = {}
    /\ opened = FALSE
    /\ polled = FALSE
    /\ device_ok = 0
    /\ state_pubs = 0
    /\ budget = events
    /\ supervisor = [hass_token |-> FALSE, answer |-> None]
    /\ device_mode = ""
    /\ state_label = ""

Init == Start(MaxEvents)

---------------------------------------------------------------------------
(* Startup (main, lines 72-168).                                           *)

\* Lines 72-109: parse the arguments, read the config file, derive the
\* topics and build the device handle; any `?` that fails ends main.
ReadConfig(files) ==
    /\ pc = "read_config"
    /\ \E cfg \in files, readable \in BOOLEAN :
         /\ config' = IF readable THEN Some(cfg) ELSE None
         /\ pc' = IF readable THEN "resolve" ELSE "exit"
         /\ failure' = IF readable THEN "" ELSE "config file"
    /\ UNCHANGED <<mqttoptions, client, requests, network, event, subscribed,
                   published, opened, polled, device_ok, state_pubs, budget, supervisor,
                   device_mode, state_label>>

\* Lines 111-137.
Resolve(hass_tokens) ==
    /\ pc = "resolve"
    /\ \E hass_token \in hass_tokens, supervisor_token \in BOOLEAN,
          response \in SupervisorResponses :
         LET r == resolve(Unwrap(config), hass_token, supervisor_token, response)
         IN  /\ config' = Some(r.config)
             /\ pc' = r.pc
             /\ failure' = r.failure
             /\ supervisor' =
                    [hass_token |-> hass_token,
                     answer |-> IF hass_token /\ supervisor_token
                                THEN Some(response) ELSE None]
    /\ UNCHANGED <<mqttoptions, client, requests, network, event, subscribed,
                   published, opened, polled, device_ok, state_pubs, budget,
                   device_mode, state_label>>

\* Lines 139-148.
MqttOptionsNew ==
    /\ pc = "options"
    /\ LET r == mqtt_options(Unwrap(config))
       IN  /\ mqttoptions' = r.config
           /\ pc' = r.pc
           /\ failure' = r.failure
    /\ UNCHANGED <<config, client, requests, network, event, subscribed,
                   published, opened, polled, device_ok, state_pubs, budget, supervisor,
                   device_mode, state_label>>

\* Mutant: creating the client also opens the connection.
AsyncClientNewConnected ==
    /\ pc = "new_client"
    /\ client' = TRUE
    /\ requests' = << >>
    /\ network' = TRUE
    /\ opened' = TRUE
    /\ pc' = "subscribe"
    /\ UNCHANGED <<config, mqttoptions, event, failure, subscribed, published,
                   polled, device_ok, state_pubs, budget, supervisor,
                   device_mode, state_label>>

\* Line 150: AsyncClient::new(mqttoptions, 10) returns the client and the
\* event loop, joined by an empty request channel; nothing is connected.
AsyncClientNew ==
    /\ pc = "new_client"
    /\ client' = TRUE
    /\ requests' = << >>
    /\ network' = FALSE
    /\ pc' = "subscribe"
    /\ UNCHANGED <<config, mqttoptions, event, failure, subscribed, published,
                   opened, polled, device_ok, state_pubs, budget, supervisor,
                   device_mode, state_label>>

\* Mutant: the result of the request is discarded instead of unwrapped.
AfterSendDiscard(sent, next) ==
    CASE sent = "sent" -> next
      [] sent = "error" -> next
      [] sent = "blocked" -> "blocked"

\* Where main is after `client.<request>.await.unwrap()`.
AfterSend(sent, next) ==
    CASE sent = "sent" -> next
      [] sent = "error" -> "panic"
      [] sent = "blocked" -> "blocked"

\* Mutant: the subscribe future is dropped without being awaited, so no
\* request is made.
SubscribeNotAwaited ==
    /\ pc = "subscribe"
    /\ pc' = "discovery"
    /\ UNCHANGED <<config, mqttoptions, client, requests, network, event,
                   failure, subscribed, published, opened, polled, device_ok,
                   state_pubs, budget, supervisor,
                   device_mode, state_label>>

\* Lines 152-156.
Subscribe ==
    /\ pc = "subscribe"
    /\ \E ok \in BOOLEAN :
         LET req == CommandSubscribe(Unwrap(config))
             sent == SendResult(requests, ok)
         IN  /\ requests' = IF sent = "sent" THEN Append(requests, req) ELSE requests
             /\ subscribed' = IF sent = "sent" THEN subscribed \cup {req}
                              ELSE subscribed
             /\ pc' = AfterSend(sent, "discovery")
             /\ failure' = IF sent = "error" THEN "subscribe failed" ELSE ""
    /\ UNCHANGED <<config, mqttoptions, client, network, event, published,
                   opened, polled, device_ok, state_pubs, budget, supervisor,
                   device_mode, state_label>>

\* Lines 158-168.
PublishDiscovery ==
    /\ pc = "discovery"
    /\ \E ok \in BOOLEAN :
         LET req == DiscoveryPublish(Unwrap(config))
             sent == SendResult(requests, ok)
         IN  /\ requests' = IF sent = "sent" THEN Append(requests, req) ELSE requests
             /\ published' = IF sent = "sent" THEN published \cup {req}
                             ELSE published
             /\ pc' = AfterSend(sent, "poll")
             /\ failure' = IF sent = "error" THEN "publish failed" ELSE ""
    /\ UNCHANGED <<config, mqttoptions, client, network, event, subscribed,
                   opened, polled, device_ok, state_pubs, budget, supervisor,
                   device_mode, state_label>>

---------------------------------------------------------------------------
(* The receive loop (main, lines 170-191): one action is one iteration,    *)
(* eventloop.poll() and the match arm of the event it returned.            *)

\* poll() without a connection connects first: Ok(Incoming(ConnAck)), the
\* `_` arm, or Err(err), the println! arm.
PollConnect ==
    /\ pc = "poll"
    /\ ~network
    /\ \E connected \in BOOLEAN :
         /\ network' = connected
         /\ opened' = (opened \/ connected)
         /\ event' = IF connected THEN IncomingOther ELSE TransportError
    /\ polled' = TRUE
    /\ UNCHANGED <<pc, config, mqttoptions, client, requests, failure,
                   subscribed, published, device_ok, state_pubs, budget, supervisor,
                   device_mode, state_label>>

\* Mutant: the result of handle_payload is unwrapped.
LoopPositionUnwrap(result, sent) ==
    IF result.tag = "err" THEN "panic"
    ELSE IF IsSome(result.label) THEN AfterSend(sent, "poll")
    ELSE "poll"

\* The match on handle_payload's result (lines 174-186): where main is
\* after the arm, given how the state publish of the Ok(Some(state)) arm went.
LoopPosition(result, sent) ==
    IF result.tag = "ok" /\ IsSome(result.label)
        THEN AfterSend(sent, "poll")
    ELSE "poll"

\* Ok(Incoming(Packet::Publish(p))): lines 173-187.
PollPublish(topics, payloads) ==
    /\ pc = "poll"
    /\ network
    /\ budget > 0
    /\ \E suffix \in topics, payload \in payloads,
          deviceOk \in BOOLEAN, ok \in BOOLEAN :
         LET cfg == Unwrap(config)
             topic == cfg.base_topic \o suffix
             h == handle_payload(cfg.door, payload, deviceOk)
             label == h.result.tag = "ok" /\ IsSome(h.result.label)
             req == StatePublish(cfg, Unwrap(h.result.label))
             sent == IF label THEN SendResult(requests, ok) ELSE "none"
         IN  /\ event' = [kind |-> "publish", topic |-> topic,
                          payload |-> payload, calls |-> h.calls,
                          outcome |-> Outcome(h.result), send |-> sent,
                          report |-> Report(h.result)]
             /\ requests' = IF sent = "sent" THEN Append(requests, req)
                            ELSE requests
             /\ published' = IF sent = "sent" THEN published \cup {req}
                             ELSE published
             /\ state_pubs' = IF sent = "sent" THEN state_pubs + 1
                              ELSE state_pubs
             /\ device_ok' = device_ok
                              + Cardinality({i \in DOMAIN h.calls : h.calls[i].ok})
             /\ device_mode' =
                    IF h.calls # << >> /\ h.calls[Len(h.calls)].ok
                    THEN h.calls[Len(h.calls)].mode ELSE device_mode
             /\ state_label' = IF sent = "sent" THEN req.payload ELSE state_label
             /\ pc' = LoopPosition(h.result, sent)
             /\ failure' = IF sent = "error" THEN "publish failed" ELSE ""
    /\ budget' = budget - 1
    /\ polled' = TRUE
    /\ UNCHANGED <<config, mqttoptions, client, network, subscribed, opened,
                   supervisor>>

\* Ok(Incoming(<any other packet>)): the `_` arm.
PollIncomingOther ==
    /\ pc = "poll"
    /\ network
    /\ event' = IncomingOther
    /\ polled' = TRUE
    /\ UNCHANGED <<pc, config, mqttoptions, client, requests, network, failure,
                   subscribed, published, opened, device_ok, state_pubs, budget, supervisor,
                   device_mode, state_label>>

\* poll() takes the next request from the channel and writes it to the
\* broker: Ok(Outgoing(..)), the `_` arm.
PollRequest ==
    /\ pc = "poll"
    /\ network
    /\ requests # << >>
    /\ requests' = Tail(requests)
    /\ event' = Outgoing
    /\ polled' = TRUE
    /\ UNCHANGED <<pc, config, mqttoptions, client, network, failure,
                   subscribed, published, opened, device_ok, state_pubs, budget, supervisor,
                   device_mode, state_label>>

\* poll() sends a keep-alive ping: Ok(Outgoing(PingReq)), the `_` arm.
PollKeepAlive ==
    /\ pc = "poll"
    /\ network
    /\ event' = Outgoing
    /\ polled' = TRUE
    /\ UNCHANGED <<pc, config, mqttoptions, client, requests, network, failure,
                   subscribed, published, opened, device_ok, state_pubs, budget, supervisor,
                   device_mode, state_label>>

\* Mutant: the error of poll() is returned from main with `?`.
PollErrorFatal ==
    /\ pc = "poll"
    /\ network
    /\ network' = FALSE
    /\ event' = TransportError
    /\ polled' = TRUE
    /\ pc' = "exit"
    /\ failure' = "poll failed"
    /\ UNCHANGED <<config, mqttoptions, client, requests, subscribed, published,
                   opened, device_ok, state_pubs, budget, supervisor,
                   device_mode, state_label>>

\* poll() fails on the connection, which the event loop then drops:
\* Err(err), the println! arm.
PollError ==
    /\ pc = "poll"
    /\ network
    /\ network' = FALSE
    /\ event' = TransportError
    /\ polled' = TRUE
    /\ UNCHANGED <<pc, config, mqttoptions, client, requests, failure,
                   subscribed, published, opened, device_ok, state_pubs, budget, supervisor,
                   device_mode, state_label>>

Next ==
    \/ ReadConfig(ConfigFiles)
    \/ Resolve(BOOLEAN)
    \/ MqttOptionsNew
    \/ AsyncClientNew
    \/ Subscribe
    \/ PublishDiscovery
    \/ PollConnect
    \/ PollPublish(InboundTopics, Payloads)
    \/ PollIncomingOther
    \/ PollRequest
    \/ PollKeepAlive
    \/ PollError

Spec == Init /\ [][Next]_vars

---------------------------------------------------------------------------
(* A burst of identical commands: one deployment with static credentials,  *)
(* and a broker that delivers only "LOCK" on the command topic.            *)

BurstConfigFiles ==
    { f \in ConfigFiles :
        /\ f.base_topic = "uhppote"
        /\ IsSome(f.mqtt_host) /\ IsSome(f.mqtt_port)
        /\ IsSome(f.mqtt_username) /\ IsSome(f.mqtt_password) }

CommandTopicOnly == { "/command" }

InitBurst == Start(BurstEvents)

NextBurst ==
    \/ ReadConfig(BurstConfigFiles)
    \/ Resolve({FALSE})
    \/ MqttOptionsNew
    \/ AsyncClientNew
    \/ Subscribe
    \/ PublishDiscovery
    \/ PollConnect
    \/ PollPublish(CommandTopicOnly, {BytesLOCK})
    \/ PollIncomingOther
    \/ PollRequest
    \/ PollKeepAlive
    \/ PollError

SpecBurst == InitBurst /\ [][NextBurst]_vars

---------------------------------------------------------------------------
(* The claims.                                                             *)

Commands == {BytesLOCK, BytesUNLOCK}

\* C1: for an inbound payload "LOCK" or "UNLOCK" the translator calls the
\* device's door control exactly once, for the configured door, with a delay
\* of 5 seconds and mode Controlled for "LOCK", NormallyOpen for "UNLOCK"; it
\* yields "LOCKED" (resp. "UNLOCKED") if and only if that call succeeds, and
\* an error, never a label, when the call fails.
C1_TranslateCommand ==
    (event.kind = "publish" /\ event.payload \in Commands) =>
        /\ Len(event.calls) = 1
        /\ event.calls[1].door = Unwrap(config).door
        /\ event.calls[1].delay = 5
        /\ event.calls[1].mode =
               (IF event.payload = BytesLOCK THEN "Controlled" ELSE "NormallyOpen")
        /\ event.calls[1].ok <=>
               event.outcome =
                   (IF event.payload = BytesLOCK THEN "LOCKED" ELSE "UNLOCKED")
        /\ ~event.calls[1].ok => event.outcome = "error:device"

C1_Witness ==
    /\ event.kind = "publish"
    /\ event.payload = BytesUNLOCK
    /\ Len(event.calls) = 1
    /\ event.calls[1].ok
    /\ event.calls[1].door = 3
    /\ event.outcome = "UNLOCKED"

\* C2: for an inbound payload that is not exactly "LOCK" or "UNLOCK" (another
\* case, surrounding whitespace, empty, not valid UTF-8) the translator yields
\* Ignored or a decode error, the device is not called and nothing is
\* published to the state topic.
C2_OtherPayloadIgnored ==
    [][(event'.kind = "publish" /\ event'.payload \notin Commands) =>
          /\ event'.calls = << >>
          /\ event'.outcome \in {"ignored", "error:utf8"}
          /\ event'.send = "none"
          /\ device_ok' = device_ok
          /\ requests' = requests
          /\ published' = published
          /\ state_pubs' = state_pubs]_vars

C2_Witness ==
    /\ event.kind = "publish"
    /\ event.payload = BytesTruncated
    /\ event.outcome = "error:utf8"
    /\ state_pubs = 0
    /\ budget = 0

\* C3: an inbound publish on a topic other than the command topic, whatever
\* its payload, causes no device call and no state publish.
C3_OnlyCommandTopic ==
    (/\ event.kind = "publish"
     /\ event.topic # Unwrap(config).base_topic \o "/command") =>
        /\ event.calls = << >>
        /\ event.send = "none"

C5_DiscoveryFirst ==
    subscribed # {} => published # {}

\* C5, amended: the subscribe to the command topic precedes the discovery
\* publish; the request channel holds the two in that order before the
\* first poll.
C5_SubscribeFirst ==
    /\ pc = "discovery" => (subscribed # {} /\ published = {})
    /\ (pc = "poll" /\ ~polled) =>
           /\ Len(requests) = 2
           /\ requests[1].op = "subscribe"
           /\ requests[2].op = "publish"
           /\ requests[2].retain

C5_Witness ==
    /\ pc = "poll"
    /\ ~polled
    /\ Len(requests) = 2

\* C6 as stated: once the loop is entered no event outcome, the failure of
\* the resulting state publish included, ends the process: the loop goes on
\* to poll the next event.
C6_NothingFatal ==
    [][pc = "poll" => pc' = "poll"]_vars

\* C6, amended: a transport error, an undecodable payload, an unknown command
\* and a device-call failure leave the loop polling; a failure of the
\* resulting state publish panics.
C6_Isolated ==
    [][pc = "poll" =>
          /\ event'.kind = "error" => (pc' = "poll" /\ failure' = "")
          /\ event'.outcome \in {"error:utf8", "ignored", "error:device"} =>
                 (pc' = "poll" /\ failure' = "")
          /\ event'.send = "error" => pc' = "panic"]_vars

C6_Witness ==
    /\ pc = "poll"
    /\ event.kind = "publish"
    /\ event.outcome = "error:device"
    /\ budget < MaxEvents - 1

\* C7: n identical inbound "LOCK" messages on the command topic whose device
\* call succeeds make exactly n device calls and exactly n publishes of
\* "LOCKED" to the state topic (here while no publish has failed).
C7_NoDeduplication ==
    failure = "" => state_pubs = device_ok

\* C8: every topic subscribed to is base_topic + "/command" and every topic
\* published to is base_topic + "/config" or base_topic + "/state".
C8_TopicsOnly ==
    /\ \A r \in subscribed :
          r.topic = Unwrap(config).base_topic \o "/command"
    /\ \A r \in published :
          r.topic \in { Unwrap(config).base_topic \o "/config",
                        Unwrap(config).base_topic \o "/state" }
    /\ \A i \in DOMAIN requests :
          requests[i] \in subscribed \cup published

C8_Witness ==
    /\ subscribed # {}
    /\ \E r \in published : r.topic = "home/gate/config"
    /\ \E r \in published : r.topic = "home/gate/state"

\* C9: a publish to the state topic is not retained, at least once, and
\* carries "LOCKED" or "UNLOCKED"; a publish to the config topic is retained,
\* at least once, and carries the discovery payload built from the command
\* topic, the state topic and the configured name; the subscribe is at most
\* once.
C9_Delivery ==
    /\ \A r \in published :
          /\ r.op = "publish"
          /\ r.qos = "AtLeastOnce"
          /\ r.topic = Unwrap(config).base_topic \o "/state" =>
                 (~r.retain /\ r.payload \in {"LOCKED", "UNLOCKED"})
          /\ r.topic = Unwrap(config).base_topic \o "/config" =>
                 /\ r.retain
                 /\ r.payload =
                        "{\"command_topic\": \"" \o Unwrap(config).base_topic
                        \o "/command\", \"state_topic\": \""
                        \o Unwrap(config).base_topic
                        \o "/state\", \"name\": \"" \o Unwrap(config).name
                        \o "\" }"
    /\ \A r \in subscribed : r.op = "subscribe" /\ r.qos = "AtMostOnce"

C9_Witness ==
    /\ subscribed # {}
    /\ \E r \in published : r.payload = "UNLOCKED"
    /\ \E r \in published : r.retain

\* C10: when, after credential resolution, any of broker host, port, username
\* or password is unset, startup fails before a client is created: no
\* subscribe, no publish, no poll and no device call happens in that run.
Partial(cfg) ==
    \/ ~IsSome(cfg.mqtt_host)
    \/ ~IsSome(cfg.mqtt_port)
    \/ ~IsSome(cfg.mqtt_username)
    \/ ~IsSome(cfg.mqtt_password)

AfterResolution == pc \notin {"read_config", "resolve"} /\ IsSome(config)

C10_NoPartialCredentials ==
    /\ [](AfterResolution /\ Partial(Unwrap(config)) =>
             /\ pc \in {"options", "panic", "exit"}
             /\ mqttoptions = None
             /\ ~client
             /\ requests = << >>
             /\ subscribed = {}
             /\ published = {}
             /\ ~polled
             /\ event = NoEvent
             /\ device_ok = 0)
    /\ [][pc = "options" /\ Partial(Unwrap(config)) => pc' = "panic"]_vars

C10_Witness ==
    /\ pc = "panic"
    /\ failure = "No MQTT password found"
    /\ IsSome(Unwrap(config).mqtt_username)

\* C11: without the supervisor flag and with a fully populated static config
\* the resolved host, port, username and password are the four static values
\* unchanged; with the flag and a success response they are the response's
\* host, its port string parsed as an unsigned 16-bit integer, username and
\* password, whatever the static values; with the flag and a non-success
\* status, or a port string that is no unsigned 16-bit integer, resolution
\* fails and the bridge does not start.
Answered == supervisor'.hass_token /\ IsSome(supervisor'.answer)

C11_Resolution ==
    /\ [][pc = "resolve" =>
            /\ (~supervisor'.hass_token /\ ~Partial(Unwrap(config))) =>
                   /\ pc' = "options"
                   /\ config' = config
                   /\ Unwrap(config').mqtt_host = Some("broker.local")
                   /\ Unwrap(config').mqtt_port = Some(1883)
                   /\ Unwrap(config').mqtt_username = Some("bridge")
                   /\ Unwrap(config').mqtt_password = Some("secret")
            /\ (/\ Answered
                /\ Unwrap(supervisor'.answer).sent
                /\ Unwrap(supervisor'.answer).status = 200
                /\ IsSome(Unwrap(supervisor'.answer).body)) =>
                   LET j == Unwrap(Unwrap(supervisor'.answer).body)
                       port == CASE j.port = <<"8", "8", "8", "3">> -> Some(8883)
                                 [] j.port = <<"6", "5", "5", "3", "5">> -> Some(65535)
                                 [] OTHER -> None
                   IN  IF port = None THEN pc' = "exit"
                       ELSE /\ pc' = "options"
                            /\ Unwrap(config').mqtt_host = Some(j.host)
                            /\ Unwrap(config').mqtt_port = port
                            /\ Unwrap(config').mqtt_username = Some(j.username)
                            /\ Unwrap(config').mqtt_password = Some(j.password)
            /\ (/\ Answered
                /\ Unwrap(supervisor'.answer).sent
                /\ Unwrap(supervisor'.answer).status # 200) => pc' = "exit"]_vars
    /\ [](pc = "exit" => (~client /\ ~polled /\ subscribed = {}))
    /\ [](IsSome(mqttoptions) =>
             /\ Some(Unwrap(mqttoptions).host) = Unwrap(config).mqtt_host
             /\ Some(Unwrap(mqttoptions).port) = Unwrap(config).mqtt_port
             /\ Some(Unwrap(mqttoptions).username) = Unwrap(config).mqtt_username
             /\ Some(Unwrap(mqttoptions).password) = Unwrap(config).mqtt_password)

C11_Witness ==
    /\ pc = "poll"
    /\ supervisor.hass_token
    /\ Unwrap(mqttoptions).host = "core-mosquitto"
    /\ Unwrap(mqttoptions).port = 65535
    /\ Unwrap(mqttoptions).username = "addons"

\* C12: a failure to connect to the broker is a startup failure: the process
\* ends without ever entering the receive loop, it does not stay polling.
C12_ConnectFailureFatal ==
    (event.kind = "error" /\ ~opened) => pc \in {"exit", "panic"}

\* C13: when the translation of an inbound command yields an error (the
\* device call fails, or the payload is not valid UTF-8) the error is
\* reported, nothing is published to the state topic for that event, and the
\* loop continues to the next poll.
C13_TranslationError ==
    [][(/\ event'.kind = "publish"
        /\ \/ event'.payload \in {BytesInvalid, BytesTruncated}
           \/ (event'.calls # << >> /\ ~event'.calls[1].ok)) =>
          /\ event'.outcome \in {"error:utf8", "error:device"}
          /\ event'.report = "error"
          /\ event'.send = "none"
          /\ requests' = requests
          /\ published' = published
          /\ state_pubs' = state_pubs
          /\ state_label' = state_label
          /\ pc' = "poll"
          /\ failure' = ""]_vars

C13_Witness ==
    /\ pc = "poll"
    /\ event.kind = "publish"
    /\ event.payload = BytesUNLOCK
    /\ event.outcome = "error:device"
    /\ event.report = "error"
    /\ state_pubs = 1

\* C14: a polled event that is not an inbound publish (a transport error, or
\* any other event kind) dispatches no payload, calls no device, publishes
\* and subscribes nothing, and the loop continues polling.
C14_OtherEventsIgnored ==
    [][(pc = "poll" /\ event'.kind \in {"error", "incoming", "outgoing"}) =>
          /\ pc' = "poll"
          /\ failure' = ""
          /\ event'.calls = << >>
          /\ event'.outcome = "none"
          /\ event'.send = "none"
          /\ config' = config
          /\ device_ok' = device_ok
          /\ device_mode' = device_mode
          /\ subscribed' = subscribed
          /\ published' = published
          /\ state_pubs' = state_pubs
          /\ state_label' = state_label
          /\ \/ requests' = requests
             \/ (requests # << >> /\ requests' = Tail(requests))]_vars

C14_Witness ==
    /\ pc = "poll"
    /\ event.kind = "error"
    /\ opened
    /\ ~network
    /\ state_pubs = 1

\* C15: a failure to publish the state label after a successful device action
\* is fatal: it ends the receive loop and the process, and no later inbound
\* command is handled.
C15_StatePublishFatal ==
    /\ [][(pc = "poll" /\ event'.send = "error") =>
             /\ event'.calls[1].ok
             /\ pc' = "panic"
             /\ failure' = "publish failed"
             /\ state_pubs' = state_pubs]_vars
    /\ [][pc # "panic"]_vars

C15_Witness ==
    /\ pc = "panic"
    /\ event.send = "error"
    /\ device_ok = 2
    /\ state_pubs = 1
    /\ budget > 0

\* C16: device operations are strictly sequential and made only in the
\* receive loop: none before the subscribe and the discovery publish, at most
\* one for an inbound publish event, each returned before the next poll.
C16_DeviceSequential ==
    /\ [](Len(event.calls) <= 1)
    /\ []((device_ok > 0 \/ event.calls # << >>) =>
             /\ subscribed # {}
             /\ published # {}
             /\ polled
             /\ pc \in {"poll", "panic", "blocked"})
    /\ [](event.calls # << >> => event.kind = "publish")
    /\ [][/\ device_ok' <= device_ok + 1
          /\ device_ok' # device_ok =>
                 (pc = "poll" /\ event'.kind = "publish" /\ event'.calls # << >>)]_vars

C16_Witness ==
    /\ pc = "poll"
    /\ Len(event.calls) = 1
    /\ ~event.calls[1].ok
    /\ device_ok = 2

\* C17: the discovery payload is published once, at startup; a further
\* publish to the config topic happens only if the bridge reconnects, never
\* through the handling of an inbound command or of an ignorable event.
ConfigPublishes(queue) ==
    Cardinality({ i \in DOMAIN queue :
                    queue[i].topic = Unwrap(config).base_topic \o "/config" })

C17_DiscoveryOnce ==
    /\ [](pc \in {"read_config", "resolve", "options", "new_client",
                  "subscribe", "discovery"} => published = {})
    /\ [][pc = "discovery" /\ pc' = "poll" =>
             ConfigPublishes(requests') = ConfigPublishes(requests) + 1]_vars
    /\ [][(/\ pc = "poll"
           /\ Len(requests') > Len(requests)
           /\ requests'[Len(requests')].topic =
                  Unwrap(config).base_topic \o "/config") =>
             (~network /\ network' /\ opened)]_vars

C17_Witness ==
    /\ pc = "poll"
    /\ opened
    /\ ~network
    /\ state_pubs = 2
    /\ ConfigPublishes(requests) = 1

\* C18: the bridge task never waits forever on an outbound request: every
\* state publish is accepted into the request channel and the loop returns to
\* polling, also for a burst of commands delivered before any queued request
\* is taken from the channel.
C18_NeverBlocked ==
    pc # "blocked"

\* C19: at the poll point either no device call has succeeded and no state
\* label has been published, or the last published label matches the mode of
\* the last successful device call ("LOCKED" for Controlled, "UNLOCKED" for
\* NormallyOpen); every state publish directly follows a successful device
\* call for the same inbound message.
C19_StateMatchesDevice ==
    /\ [](pc = "poll" =>
             \/ /\ device_ok = 0 /\ state_pubs = 0
                /\ device_mode = "" /\ state_label = ""
             \/ /\ device_ok > 0 /\ state_pubs > 0
                /\ device_mode = "Controlled" /\ state_label = "LOCKED"
             \/ /\ device_ok > 0 /\ state_pubs > 0
                /\ device_mode = "NormallyOpen" /\ state_label = "UNLOCKED")
    /\ [][state_pubs' # state_pubs =>
             /\ event'.kind = "publish"
             /\ event'.calls # << >>
             /\ event'.calls[1].ok
             /\ device_ok' = device_ok + 1
             /\ state_pubs' = state_pubs + 1]_vars

C19_Witness ==
    /\ pc = "poll"
    /\ device_ok = 2
    /\ device_mode = "NormallyOpen"
    /\ state_label = "UNLOCKED"
    /\ event.kind = "outgoing"

=============================================================================
